---- MODULE Spec2Model ----
(***************************************************************************)
(* Model of the stock-advisor chat front end: the ChatInterface component  *)
(* (handleSubmit, processMessage and its extraction helpers), the HomePage *)
(* that hosts it behind a tab switch, and the backend operations reached   *)
(* through apiService.  Text is modelled character by character with TLA+  *)
(* strings, so that classification, extraction and reply templates are     *)
(* computed the way the code computes them.                                *)
(***************************************************************************)
EXTENDS Integers, Sequences, FiniteSets, TLC

(***************************************************************************)
(* Bounds of the model.                                                    *)
(***************************************************************************)
\* number of chat submissions accepted in one UI session
MaxSubmits == 2

(***************************************************************************)
(* String primitives (JavaScript String methods).                          *)
(***************************************************************************)
UpperLetters == "ABCDEFGHIJKLMNOPQRSTUVWXYZ"
LowerLetters == "abcdefghijklmnopqrstuvwxyz"

charAt(s, i) == SubSeq(s, i, i)

slice(s, i) == SubSeq(s, i, Len(s))

\* String.prototype.includes: t occurs in s as a contiguous substring
includes(s, t) ==
    \E i \in 1..(Len(s) - Len(t) + 1) : SubSeq(s, i, i + Len(t) - 1) = t

lowerChar(c) ==
    IF \E i \in 1..26 : charAt(UpperLetters, i) = c
    THEN charAt(LowerLetters, CHOOSE i \in 1..26 : charAt(UpperLetters, i) = c)
    ELSE c

upperChar(c) ==
    IF \E i \in 1..26 : charAt(LowerLetters, i) = c
    THEN charAt(UpperLetters, CHOOSE i \in 1..26 : charAt(LowerLetters, i) = c)
    ELSE c

RECURSIVE toLowerCase(_)
toLowerCase(s) ==
    IF s = "" THEN "" ELSE lowerChar(charAt(s, 1)) \o toLowerCase(slice(s, 2))

RECURSIVE toUpperCase(_)
toUpperCase(s) ==
    IF s = "" THEN "" ELSE upperChar(charAt(s, 1)) \o toUpperCase(slice(s, 2))

isSpace(c) == c \in {" ", "\t", "\n"}

RECURSIVE trimStart(_)
trimStart(s) ==
    IF s # "" /\ isSpace(charAt(s, 1)) THEN trimStart(slice(s, 2)) ELSE s

RECURSIVE trimEnd(_)
trimEnd(s) ==
    IF s # "" /\ isSpace(charAt(s, Len(s)))
    THEN trimEnd(SubSeq(s, 1, Len(s) - 1)) ELSE s

trim(s) == trimEnd(trimStart(s))

\* position of the first occurrence of the character c in s at or after
\* position from, or 0 when there is none
indexOfChar(s, c, from) ==
    IF \E i \in from..Len(s) : charAt(s, i) = c
    THEN CHOOSE i \in from..Len(s) :
            /\ charAt(s, i) = c
            /\ \A j \in from..(i - 1) : charAt(s, j) # c
    ELSE 0

\* String.prototype.split(','): always at least one piece
RECURSIVE split(_)
split(s) ==
    LET k == indexOfChar(s, ",", 1)
    IN  IF k = 0 THEN <<s>>
        ELSE <<SubSeq(s, 1, k - 1)>> \o split(slice(s, k + 1))

\* Array.prototype.join(sep)
RECURSIVE join(_, _)
join(a, sep) ==
    IF Len(a) = 0 THEN ""
    ELSE IF Len(a) = 1 THEN a[1]
    ELSE a[1] \o sep \o join(Tail(a), sep)


(***************************************************************************)
(* Fixed texts of ChatInterface.  The bullet character of the source is    *)
(* written "*" here; no behaviour depends on it.  Message timestamps are   *)
(* left out: nothing reads them but the renderer.                          *)
(***************************************************************************)
Greeting ==
    "Hello! I'm your AI Stock Advisor. I can help you with:\n\n* Adding custom stocks to your portfolio\n* Getting personalized stock recommendations\n* Analyzing market clusters\n* Managing your investment strategy\n\nWhat would you like to do today?"

Apology ==
    "I apologize, but I encountered an error. Please try again or check if the API is running."

HelpPrefix == "I understand you want help with: \""

HelpSuffix ==
    "\". I can assist you with:\n\n* Adding custom stocks: \"Add the following stocks: [AAPL, MSFT, GOOGL]\"\n* Getting recommendations: \"I want conservative recommendations for $10,000\"\n* Analyzing clusters: \"Show me the market clusters\"\n* Managing stocks: \"List my custom stocks\"\n\nWhat specific action would you like me to help you with?"

NoCustomStocks ==
    "No custom stocks added yet. You can add stocks using: \"Add the following stocks: [SYMBOL1, SYMBOL2, ...]\""

\* a nullable value is a sequence of length 0 (null) or 1
Null == << >>

Some(v) == <<v>>

(***************************************************************************)
(* Parameter extraction (ChatInterface helpers).                           *)
(***************************************************************************)
\* text.match(/\[([^\]]+)\]/): the leftmost "[" whose next "]" lies at
\* least two positions further; 0 when the pattern does not match
bracketStart(text) ==
    LET ok(i) == /\ charAt(text, i) = "["
                 /\ indexOfChar(text, "]", i + 1) >= i + 2
    IN  IF \E i \in 1..Len(text) : ok(i)
        THEN CHOOSE i \in 1..Len(text) : ok(i) /\ \A j \in 1..(i - 1) : ~ok(j)
        ELSE 0

\* capture group 1 of the bracket match
bracketGroup(text) ==
    LET i == bracketStart(text)
    IN  SubSeq(text, i + 1, indexOfChar(text, "]", i + 1) - 1)

extractStockSymbols(text) ==
    IF bracketStart(text) # 0
    THEN LET parts == split(bracketGroup(text))
         IN  [k \in 1..Len(parts) |-> toUpperCase(trim(parts[k]))]
    ELSE << >>

(***************************************************************************)
(* parseStockSymbols of lib/utils, the extractor of the stock manager.     *)
(***************************************************************************)
isUpperLetter(c) == c # "" /\ includes(UpperLetters, c)

\* symbol.length <= 5 && /^[A-Z]+$/.test(symbol)
passesFilter(symbol) ==
    /\ Len(symbol) <= 5
    /\ Len(symbol) >= 1
    /\ \A i \in 1..Len(symbol) : isUpperLetter(charAt(symbol, i))

\* the capture groups of all matches of /\[([^\]]+)\]/g, left to right
RECURSIVE bracketGroups(_)
bracketGroups(input) ==
    LET i == bracketStart(input)
    IN  IF i = 0 THEN << >>
        ELSE <<bracketGroup(input)>>
             \o bracketGroups(slice(input, indexOfChar(input, "]", i + 1) + 1))

\* number of leading upper-case letters of s
RECURSIVE upperRun(_)
upperRun(s) ==
    IF s # "" /\ isUpperLetter(charAt(s, 1)) THEN 1 + upperRun(slice(s, 2)) ELSE 0

\* the matches of /([A-Z]{1,5})/g, left to right: every run of upper-case
\* letters, cut into pieces of five
RECURSIVE upperTokens(_)
upperTokens(input) ==
    IF input = "" THEN << >>
    ELSE LET n == upperRun(input)
             m == IF n > 5 THEN 5 ELSE n
         IN  IF n = 0 THEN upperTokens(slice(input, 2))
             ELSE <<SubSeq(input, 1, m)>> \o upperTokens(slice(input, m + 1))

\* Set.prototype.add for each element, on a Set kept in insertion order
RECURSIVE addAll(_, _)
addAll(symbols, new) ==
    IF Len(new) = 0 THEN symbols
    ELSE addAll(IF \E k \in 1..Len(symbols) : symbols[k] = new[1]
                THEN symbols ELSE Append(symbols, new[1]),
                Tail(new))

\* the body of the while loop for one match: both patterns have a capture
\* group, so match[1] is set and the first branch runs for either
symbolsOfMatch(group) ==
    LET parts == split(group)
        bracketSymbols == [k \in 1..Len(parts) |-> toUpperCase(trim(parts[k]))]
    IN  SelectSeq(bracketSymbols, passesFilter)

RECURSIVE symbolsOfMatches(_)
symbolsOfMatches(groups) ==
    IF Len(groups) = 0 THEN << >>
    ELSE symbolsOfMatch(groups[1]) \o symbolsOfMatches(Tail(groups))

parseStockSymbols(input) ==
    addAll(addAll(<< >>, symbolsOfMatches(bracketGroups(input))),
           symbolsOfMatches(upperTokens(input)))

\* extractRiskTolerance with the two tests in the other order
extractRiskTolerance_aggressiveFirst(text) ==
    IF includes(text, "aggressive") \/ includes(text, "growth") THEN "aggressive"
    ELSE IF includes(text, "conservative") \/ includes(text, "safe") THEN "conservative"
    ELSE "balanced"

extractRiskTolerance(text) ==
    IF includes(text, "conservative") \/ includes(text, "safe") THEN "conservative"
    ELSE IF includes(text, "aggressive") \/ includes(text, "growth") THEN "aggressive"
    ELSE "balanced"

Digits == "0123456789"

\* the character at position i, "" outside the string
at(s, i) == IF i \in 1..Len(s) THEN SubSeq(s, i, i) ELSE ""

isDigit(c) == c # "" /\ includes(Digits, c)

digitValue(c) == (CHOOSE d \in 1..10 : charAt(Digits, d) = c) - 1

\* [\d,]
isAmountChar(c) == isDigit(c) \/ c = ","

\* number of leading characters of s that satisfy the class test
RECURSIVE runLength(_, _)
runLength(s, digitsOnly) ==
    IF s # "" /\ (IF digitsOnly THEN isDigit(at(s, 1)) ELSE isAmountChar(at(s, 1)))
    THEN 1 + runLength(slice(s, 2), digitsOnly)
    ELSE 0

\* text.match(/\$?([\d,]+(?:\.\d{2})?)/): start of the leftmost match, 0 if none
amountStart(text) ==
    LET ok(i) == \/ isAmountChar(at(text, i))
                 \/ at(text, i) = "$" /\ isAmountChar(at(text, i + 1))
    IN  IF \E i \in 1..Len(text) : ok(i)
        THEN CHOOSE i \in 1..Len(text) : ok(i) /\ \A j \in 1..(i - 1) : ~ok(j)
        ELSE 0

\* capture group 1 of the amount match: the greedy [\d,]+ run and, when
\* present, a dot with exactly two digits
amountGroup(text) ==
    LET p == amountStart(text)
        q == IF at(text, p) = "$" THEN p + 1 ELSE p
        e == q + runLength(slice(text, q), FALSE) - 1
    IN  IF at(text, e + 1) = "." /\ isDigit(at(text, e + 2)) /\ isDigit(at(text, e + 3))
        THEN SubSeq(text, q, e + 3)
        ELSE SubSeq(text, q, e)

\* String.prototype.replace(',', ''): a string pattern replaces the first
\* occurrence only
replaceComma(s) ==
    LET k == indexOfChar(s, ",", 1)
    IN  IF k = 0 THEN s ELSE SubSeq(s, 1, k - 1) \o slice(s, k + 1)

RECURSIVE digitsToInt(_)
digitsToInt(s) ==
    IF s = "" THEN 0
    ELSE 10 * digitsToInt(SubSeq(s, 1, Len(s) - 1)) + digitValue(at(s, Len(s)))

\* parseFloat on an unsigned decimal: the longest numeric prefix is read and
\* the rest ignored; no digit at all gives NaN.  A number is held in cents;
\* the amount pattern admits at most two fraction digits.
NaN == [nan |-> TRUE, cents |-> 0]

Number(c) == [nan |-> FALSE, cents |-> c]

parseFloat(s) ==
    LET n1 == runLength(s, TRUE)
        n2 == IF at(s, n1 + 1) = "." THEN runLength(slice(s, n1 + 2), TRUE) ELSE 0
        whole == digitsToInt(SubSeq(s, 1, n1))
        frac  == SubSeq(s, n1 + 2, n1 + 1 + n2)
    IN  IF n1 = 0 /\ n2 = 0 THEN NaN
        ELSE IF n2 = 0 THEN Number(100 * whole)
        ELSE IF n2 = 1 THEN Number(100 * whole + 10 * digitsToInt(frac))
        ELSE Number(100 * whole + digitsToInt(SubSeq(frac, 1, 2)))

DefaultAmount == Number(100 * 10000)

\* extractInvestmentAmount that parses the matched token with its commas
extractInvestmentAmount_noReplace(text) ==
    IF amountStart(text) # 0 THEN parseFloat(amountGroup(text))
    ELSE DefaultAmount

extractInvestmentAmount(text) ==
    IF amountStart(text) # 0 THEN parseFloat(replaceComma(amountGroup(text)))
    ELSE DefaultAmount

(***************************************************************************)
(* processMessage, first half: the branch taken and the backend call made  *)
(* before the await.                                                       *)
(***************************************************************************)
isInitialize(lowerMessage) ==
    includes(lowerMessage, "initialize") \/ includes(lowerMessage, "start")

isAddStocks(lowerMessage) ==
    /\ includes(lowerMessage, "add")
    /\ (includes(lowerMessage, "stock") \/ includes(lowerMessage, "["))

isGetRecommendations(lowerMessage) ==
    \/ includes(lowerMessage, "recommend")
    \/ includes(lowerMessage, "portfolio")
    \/ includes(lowerMessage, "invest")

isListStocks(lowerMessage) ==
    includes(lowerMessage, "list") /\ includes(lowerMessage, "stock")

\* the branch of processMessage whose body runs to its return or throw
branchOf(message) ==
    LET lowerMessage == toLowerCase(message)
    IN  IF isInitialize(lowerMessage) THEN "Initialize"
        ELSE IF isAddStocks(lowerMessage) /\ Len(extractStockSymbols(message)) > 0
             THEN "AddStocks"
        ELSE IF isGetRecommendations(lowerMessage) THEN "GetRecommendations"
        ELSE IF isListStocks(lowerMessage) THEN "ListStocks"
        ELSE "Unknown"

\* apiCalls with the return after the addCustomStocks reply left out, so
\* that the recommendation rule is evaluated as well
apiCalls_noReturn(message) ==
    LET lowerMessage == toLowerCase(message)
        branch == branchOf(message)
        recommend == [op |-> "getRecommendations",
                      args |-> <<extractRiskTolerance(lowerMessage),
                                 extractInvestmentAmount(message)>>]
    IN  IF branch = "Initialize"
        THEN << [op |-> "initializeSystem", args |-> << >>] >>
        ELSE IF branch = "AddStocks"
        THEN << [op |-> "addCustomStocks", args |-> <<extractStockSymbols(message)>>] >>
             \o (IF isGetRecommendations(lowerMessage) THEN <<recommend>> ELSE << >>)
        ELSE IF branch = "GetRecommendations"
        THEN << recommend >>
        ELSE IF branch = "ListStocks"
        THEN << [op |-> "listCustomStocks", args |-> << >>] >>
        ELSE << >>

\* the apiService calls processMessage issues for a message, in order
apiCalls(message) ==
    LET lowerMessage == toLowerCase(message)
        branch == branchOf(message)
    IN  IF branch = "Initialize"
        THEN << [op |-> "initializeSystem", args |-> << >>] >>
        ELSE IF branch = "AddStocks"
        THEN << [op |-> "addCustomStocks", args |-> <<extractStockSymbols(message)>>] >>
        ELSE IF branch = "GetRecommendations"
        THEN << [op |-> "getRecommendations",
                 args |-> <<extractRiskTolerance(lowerMessage),
                            extractInvestmentAmount(message)>>] >>
        ELSE IF branch = "ListStocks"
        THEN << [op |-> "listCustomStocks", args |-> << >>] >>
        ELSE << >>

\* defaultResponse that echoes the lower-cased text used for matching
defaultResponse_lowerCased(message) ==
    HelpPrefix \o toLowerCase(message) \o HelpSuffix

\* the default response at the end of processMessage
defaultResponse(message) == HelpPrefix \o message \o HelpSuffix

(***************************************************************************)
(* Backend results.  A settled call is [kind |-> "resolve", data |-> d]    *)
(* (the JSON body, with its success flag) or [kind |-> "reject"] (timeout, *)
(* transport or HTTP error, rethrown by apiService).  Fractions arrive     *)
(* with the precision the templates print: returns and volatility in       *)
(* units of 1/10000, weights in 1/1000, the Sharpe ratio in 1/100, so the  *)
(* toFixed calls never round.                                              *)
(***************************************************************************)
BackendMessages == {"rate limited"}

Rejected == [kind |-> "reject"]

Resolved(d) == [kind |-> "resolve", data |-> d]

Failure(m) == [success |-> FALSE, message |-> m]

ClusterResults ==
    { [success |-> TRUE, clusters |-> {"0", "1", "2"}] }

\* the first symbol is accepted, the others are not
AddResults(stocks) ==
    { [success |-> TRUE, message |-> "Stocks added", added |-> SubSeq(stocks, 1, 1),
       failed |-> Tail(stocks), total_custom_stocks |-> 1] }

Allocation(stock, weight, shares) ==
    [stock |-> stock, weight |-> weight, shares |-> shares]

SmallAllocations ==
    << Allocation("MSFT", 600, 12), Allocation("AAPL", 400, 20) >>

LargeAllocations ==
    << Allocation("KO", 100, 15), Allocation("AAPL", 300, 16),
       Allocation("MSFT", 250, 6), Allocation("JNJ", 50, 3),
       Allocation("PG", 125, 8), Allocation("XOM", 175, 14) >>

Backtest ==
    [total_return |-> 4567, annual_return |-> 1234, max_drawdown |-> -1502]

RecommendationResults ==
    { [success |-> TRUE,
       portfolio |-> [allocations |-> a, total_investment |-> 10000,
                      expected_return |-> 1234, volatility |-> 1805,
                      sharpe_ratio |-> 68],
       backtest |-> Backtest,
       selected_stocks |-> [k \in 1..Len(a) |-> a[k].stock]]
      : a \in {SmallAllocations, LargeAllocations} }

ListResults ==
    { [success |-> TRUE, custom_stocks |-> c, total_custom_stocks |-> Len(c),
       total_available_stocks |-> 500 + Len(c), sp500_stocks_count |-> 500]
      : c \in {<< >>, <<"PLTR", "MKL">>} }

\* the outcomes a call of the operation can have
Outcomes(call) ==
    LET bodies ==
          IF call.op = "initializeSystem" THEN ClusterResults
          ELSE IF call.op = "addCustomStocks" THEN AddResults(call.args[1])
          ELSE IF call.op = "getRecommendations" THEN RecommendationResults
          ELSE ListResults
    IN  {Rejected} \cup {Resolved(d) : d \in bodies}
                   \cup {Resolved(Failure(m)) : m \in BackendMessages}

(***************************************************************************)
(* Number formatting.                                                      *)
(***************************************************************************)
abs(n) == IF n < 0 THEN -n ELSE n

RECURSIVE pow10(_)
pow10(d) == IF d = 0 THEN 1 ELSE 10 * pow10(d - 1)

RECURSIVE padStart(_, _)
padStart(s, d) == IF Len(s) >= d THEN s ELSE padStart("0" \o s, d)

\* Number.prototype.toFixed(d) of the number n / 10^d
toFixed(n, d) ==
    (IF n < 0 THEN "-" ELSE "")
        \o ToString(abs(n) \div pow10(d)) \o "."
        \o padStart(ToString(abs(n) % pow10(d)), d)

\* Number.prototype.toLocaleString() of a non-negative integer (en-US grouping)
RECURSIVE toLocaleString(_)
toLocaleString(n) ==
    IF n < 1000 THEN ToString(n)
    ELSE toLocaleString(n \div 1000) \o "," \o padStart(ToString(n % 1000), 3)

\* the allocations in descending order of weight
RECURSIVE byWeight(_)
byWeight(allocations) ==
    IF Len(allocations) = 0 THEN << >>
    ELSE LET k == CHOOSE i \in 1..Len(allocations) :
                    \A j \in 1..Len(allocations) :
                        \/ allocations[j].weight < allocations[i].weight
                        \/ allocations[j].weight = allocations[i].weight /\ i <= j
         IN  <<allocations[k]>>
             \o byWeight(SubSeq(allocations, 1, k - 1)
                         \o SubSeq(allocations, k + 1, Len(allocations)))

\* topAllocations that picks the five largest weights
topAllocations_byWeight(allocations) ==
    SubSeq(byWeight(allocations), 1,
           IF Len(allocations) < 5 THEN Len(allocations) ELSE 5)

\* Object.entries(allocations).slice(0, 5)
topAllocations(allocations) ==
    SubSeq(allocations, 1, IF Len(allocations) < 5 THEN Len(allocations) ELSE 5)

allocationLine(a) ==
    "* " \o a.stock \o ": " \o toFixed(a.weight, 1) \o "% ("
         \o ToString(a.shares) \o " shares)"

formatPortfolioResponse(result) ==
    LET portfolio == result.portfolio
        backtest  == result.backtest
        top       == topAllocations(portfolio.allocations)
    IN  "Here's your personalized portfolio recommendation:\n\n**Portfolio Summary:**\n"
        \o "* Total Investment: $" \o toLocaleString(portfolio.total_investment) \o "\n"
        \o "* Expected Annual Return: " \o toFixed(portfolio.expected_return, 2) \o "%\n"
        \o "* Portfolio Volatility: " \o toFixed(portfolio.volatility, 2) \o "%\n"
        \o "* Sharpe Ratio: " \o toFixed(portfolio.sharpe_ratio, 2) \o "\n\n"
        \o "**Top Allocations:**\n"
        \o join([k \in 1..Len(top) |-> allocationLine(top[k])], "\n")
        \o "\n\n**Historical Performance:**\n"
        \o "* Total Return: " \o toFixed(backtest.total_return, 2) \o "%\n"
        \o "* Annual Return: " \o toFixed(backtest.annual_return, 2) \o "%\n"
        \o "* Max Drawdown: " \o toFixed(backtest.max_drawdown, 2) \o "%\n\n"
        \o "Please consult with a financial advisor before making investment decisions."

(***************************************************************************)
(* processMessage, second half: from the settled call to the returned      *)
(* text or the thrown Error.                                               *)
(***************************************************************************)
Return(text) == [kind |-> "return", text |-> text]

Throw(msg) == [kind |-> "throw", message |-> msg]

\* initializeReply that passes the backend message on without its prefix
initializeReply_verbatim(outcome) ==
    IF outcome.kind = "reject" THEN Throw("Failed to initialize the system")
    ELSE IF outcome.data.success
    THEN Return("System initialized successfully! I've analyzed "
                \o ToString(Cardinality(outcome.data.clusters))
                \o " stock clusters. You can now get personalized recommendations or add custom stocks to your portfolio.")
    ELSE Return(outcome.data.message)

initializeReply(outcome) ==
    IF outcome.kind = "reject" THEN Throw("Failed to initialize the system")
    ELSE IF outcome.data.success
    THEN Return("System initialized successfully! I've analyzed "
                \o ToString(Cardinality(outcome.data.clusters))
                \o " stock clusters. You can now get personalized recommendations or add custom stocks to your portfolio.")
    ELSE Return("Initialization failed: " \o outcome.data.message)

addStocksReply(outcome) ==
    IF outcome.kind = "reject" THEN Throw("Failed to add custom stocks")
    ELSE IF outcome.data.success
    THEN LET result == outcome.data
         IN Return("Successfully added " \o ToString(Len(result.added))
                   \o " custom stocks to your portfolio."
                   \o (IF Len(result.added) > 0
                       THEN " Added: " \o join(result.added, ", ") \o "." ELSE "")
                   \o (IF Len(result.failed) > 0
                       THEN " Failed: " \o join(result.failed, ", ") \o "." ELSE "")
                   \o " Total custom stocks: "
                   \o ToString(result.total_custom_stocks) \o ".")
    ELSE Return("Failed to add stocks: " \o outcome.data.message)

\* recommendationsReply that treats a failure response like a thrown call
recommendationsReply_throws(outcome) ==
    IF outcome.kind = "reject" THEN Throw("Failed to get recommendations")
    ELSE IF outcome.data.success THEN Return(formatPortfolioResponse(outcome.data))
    ELSE Throw("Failed to get recommendations: " \o outcome.data.message)

recommendationsReply(outcome) ==
    IF outcome.kind = "reject" THEN Throw("Failed to get recommendations")
    ELSE IF outcome.data.success THEN Return(formatPortfolioResponse(outcome.data))
    ELSE Return("Failed to get recommendations: " \o outcome.data.message)

\* listStocksReply that passes the backend message on in the failure reply
listStocksReply_withMessage(outcome) ==
    IF outcome.kind = "reject" THEN Throw("Failed to get custom stocks list")
    ELSE IF outcome.data.success
    THEN LET result == outcome.data
         IN IF Len(result.custom_stocks) > 0
            THEN Return("Your custom stocks: " \o join(result.custom_stocks, ", ")
                        \o ". Total: " \o ToString(result.total_custom_stocks)
                        \o " custom stocks out of "
                        \o ToString(result.total_available_stocks) \o " available.")
            ELSE Return(NoCustomStocks)
    ELSE Return("Failed to get custom stocks list: " \o outcome.data.message)

listStocksReply(outcome) ==
    IF outcome.kind = "reject" THEN Throw("Failed to get custom stocks list")
    ELSE IF outcome.data.success
    THEN LET result == outcome.data
         IN IF Len(result.custom_stocks) > 0
            THEN Return("Your custom stocks: " \o join(result.custom_stocks, ", ")
                        \o ". Total: " \o ToString(result.total_custom_stocks)
                        \o " custom stocks out of "
                        \o ToString(result.total_available_stocks) \o " available.")
            ELSE Return(NoCustomStocks)
    ELSE Return("Failed to get custom stocks list")

\* what processMessage returns or throws once its call has settled
processResult(op, outcome) ==
    IF op = "initializeSystem" THEN initializeReply(outcome)
    ELSE IF op = "addCustomStocks" THEN addStocksReply(outcome)
    ELSE IF op = "getRecommendations" THEN recommendationsReply(outcome)
    ELSE listStocksReply(outcome)

\* publishes without the test of result.success
publishes_anyResult(op, outcome) ==
    op = "getRecommendations" /\ outcome.kind = "resolve"

\* onPortfolioUpdate?.(result) is reached
publishes(op, outcome) ==
    op = "getRecommendations" /\ outcome.kind = "resolve" /\ outcome.data.success

(***************************************************************************)
(* What the user may type.                                                 *)
(***************************************************************************)
SessionInputs ==
    { "Initialize the system",
      "Add stocks [AAPL, msft]",
      "I want conservative recommendations for $5,000",
      "List my custom stocks",
      "  hello there ",
      "   " }

\* one word per keyword of the rules, in mixed case
KeywordWords ==
    << "Initialize", "START", "Add", "Stock", "Recommend", "PORTFOLIO",
       "invest", "List" >>

BracketWords == { "", "[", "[AAPL, msft]" }

RECURSIVE wordsOf(_, _)
wordsOf(S, k) ==
    IF k > Len(KeywordWords) THEN << >>
    ELSE (IF k \in S THEN <<KeywordWords[k]>> ELSE << >>) \o wordsOf(S, k + 1)

\* every combination of the keywords, with and without a bracket
ClassifyInputs ==
    { join(<<"please">> \o wordsOf(S, 1) \o (IF b = "" THEN << >> ELSE <<b>>), " ")
      : S \in SUBSET (1..Len(KeywordWords)), b \in BracketWords }

\* messages that exercise the three extractors
ExtractInputs ==
    { "Add the following stocks: [PLTR, MKL, RBLX]",
      "add stocks [AAPL, AAPL, msft]",
      "add stocks [a1, TOOLONGSYM, bb]",
      "Add stock [ ]",
      "add [x] and [Y,z]",
      "I want conservative recommendations for $5,000",
      "invest $10,000.50",
      "Invest $1,000,000 for growth",
      "invest 2500.5 in safe Growth stocks",
      "Recommend something, please",
      "recommend a portfolio for $ now",
      "Recommend an AGGRESSIVE portfolio",
      "recommend a Safe portfolio",
      "Conservative or aggressive: recommend",
      "invest" }

(***************************************************************************)
(* State.                                                                  *)
(***************************************************************************)
VARIABLES
    activeTab,      \* HomePage: the selected tab
    rendered,       \* HomePage: the tab whose content AnimatePresence shows
    portfolioData,  \* HomePage: the published recommendation, or Null
    messages,       \* ChatInterface: the transcript
    inputValue,     \* ChatInterface: the text in the input field
    isLoading,      \* ChatInterface: a request is outstanding
    error,          \* ChatInterface: the error banner, or Null
    inflight,       \* handleSubmit invocations suspended at their await
    nextId,         \* source of message ids (generateId)
    calls,          \* log of the apiService calls made by the chat
    submissions,    \* log of the accepted submissions
    completed       \* user-message ids whose handleSubmit has finished

\* StockManager and the backend it talks to
VARIABLES
    customStocks,      \* StockManager: the displayed list
    newStocks,         \* StockManager: the text in the input field
    managerIsLoading,  \* StockManager: isLoading
    managerMessage,    \* StockManager: message, or Null
    isInitialized,     \* StockManager: the health check has succeeded
    serverStocks,      \* backend: the custom stocks it holds
    requests,          \* StockManager's calls suspended at their await
    nextRequest,       \* source of request ids
    listCalls,         \* log of StockManager's listCustomStocks calls, in issue order
    handled            \* number of add, remove and clear handlers started

managerVars == << customStocks, newStocks, managerIsLoading, managerMessage,
                  isInitialized, serverStocks, requests, nextRequest, listCalls,
                  handled >>

sessionVars == << activeTab, rendered, portfolioData, messages, inputValue, isLoading,
                  error, inflight, nextId, calls, submissions, completed >>

vars == << sessionVars, managerVars >>

homeVars == << activeTab, rendered, portfolioData >>

chatVars == << messages, inputValue, isLoading, error >>

Tabs == {"chat", "portfolio", "stocks"}

Message(id, type, content) == [id |-> id, type |-> type, content |-> content]

\* the useState initial values of a freshly mounted ChatInterface
InitialMessages == << Message(0, "agent", Greeting) >>

\* StockManager is not mounted and the backend holds no custom stocks
ManagerUnmounted ==
    /\ customStocks = << >>
    /\ newStocks = ""
    /\ managerIsLoading = FALSE
    /\ managerMessage = Null
    /\ isInitialized = FALSE
    /\ serverStocks = << >>
    /\ requests = {}
    /\ nextRequest = 1
    /\ listCalls = << >>
    /\ handled = 0

Init ==
    /\ ManagerUnmounted
    /\ activeTab = "chat"
    /\ rendered = "chat"
    /\ portfolioData = Null
    /\ messages = InitialMessages
    /\ inputValue = ""
    /\ isLoading = FALSE
    /\ error = Null
    /\ inflight = {}
    /\ nextId = 1
    /\ calls = << >>
    /\ submissions = << >>
    /\ completed = {}

\* the same, with a message already typed into the input field
InitClassify ==
    /\ ManagerUnmounted
    /\ activeTab = "chat"
    /\ rendered = "chat"
    /\ portfolioData = Null
    /\ messages = InitialMessages
    /\ inputValue \in ClassifyInputs
    /\ isLoading = FALSE
    /\ error = Null
    /\ inflight = {}
    /\ nextId = 1
    /\ calls = << >>
    /\ submissions = << >>
    /\ completed = {}

\* the same, with a message for the extractors typed into the input field
InitExtract ==
    /\ ManagerUnmounted
    /\ activeTab = "chat"
    /\ rendered = "chat"
    /\ portfolioData = Null
    /\ messages = InitialMessages
    /\ inputValue \in ExtractInputs
    /\ isLoading = FALSE
    /\ error = Null
    /\ inflight = {}
    /\ nextId = 1
    /\ calls = << >>
    /\ submissions = << >>
    /\ completed = {}

(***************************************************************************)
(* ChatInterface.                                                          *)
(***************************************************************************)
\* the chat form is on screen and not on its way out
chatShown == rendered = "chat" /\ activeTab = "chat"

\* onChange of the input field, which is disabled while loading
OnChange(value) ==
    /\ chatShown
    /\ ~isLoading
    /\ Len(submissions) < MaxSubmits
    /\ inputValue' = value
    /\ UNCHANGED << managerVars, homeVars, messages, isLoading, error, inflight, nextId,
                    calls, submissions, completed >>

\* rejectsSubmit without the test of the trimmed input
rejectsSubmit_loadingOnly(value, loading) == loading

\* the guard of handleSubmit
rejectsSubmit(value, loading) == trim(value) = "" \/ loading

\* startRequest without setIsLoading(true)
startRequest_notLoading(userMessage, call) ==
    /\ messages' = Append(messages, userMessage)
    /\ nextId' = nextId + 1
    /\ isLoading' = FALSE
    /\ inflight' = inflight \cup
          { [sub |-> userMessage.id, op |-> call.op, args |-> call.args,
             outcome |-> Null, live |-> TRUE] }
    /\ completed' = completed

\* handleSubmit from the user message to the await of a backend call
startRequest(userMessage, call) ==
    /\ messages' = Append(messages, userMessage)
    /\ nextId' = nextId + 1
    /\ isLoading' = TRUE
    /\ inflight' = inflight \cup
          { [sub |-> userMessage.id, op |-> call.op, args |-> call.args,
             outcome |-> Null, live |-> TRUE] }
    /\ completed' = completed

\* handleSubmit for a message that reaches the default response: no call is
\* awaited, and the reply follows the user message in the same task
answerDirectly(userMessage) ==
    /\ messages' = messages \o
          << userMessage,
             Message(nextId + 1, "agent", defaultResponse(userMessage.content)) >>
    /\ nextId' = nextId + 2
    /\ isLoading' = FALSE
    /\ inflight' = inflight
    /\ completed' = completed \cup {userMessage.id}

\* a submit event of the chat form: handleSubmit up to its await
HandleSubmit ==
    /\ chatShown
    /\ Len(submissions) < MaxSubmits
    /\ IF rejectsSubmit(inputValue, isLoading)
       THEN UNCHANGED vars
       ELSE LET content == trim(inputValue)
                userMessage == Message(nextId, "user", content)
                issued == apiCalls(content)
            IN  /\ inputValue' = ""
                /\ error' = Null
                /\ submissions' = Append(submissions, [id |-> nextId, text |-> content])
                /\ calls' = calls \o [k \in 1..Len(issued) |->
                                        [sub |-> nextId, op |-> issued[k].op,
                                         args |-> issued[k].args]]
                /\ IF Len(issued) = 0
                   THEN answerDirectly(userMessage)
                   ELSE startRequest(userMessage, issued[1])
                /\ UNCHANGED << homeVars, managerVars >>

\* the backend (or the 30 s axios timeout) settles an outstanding call
Settle(r, outcome) ==
    /\ r \in inflight
    /\ r.outcome = Null
    /\ outcome \in Outcomes(r)
    /\ inflight' = (inflight \ {r}) \cup {[r EXCEPT !.outcome = Some(outcome)]}
    /\ UNCHANGED << homeVars, chatVars, nextId, calls, submissions, completed,
                    managerVars >>

\* handlePortfolioUpdate of HomePage
handlePortfolioUpdate(data) ==
    /\ portfolioData' = Some(data)
    /\ activeTab' = "portfolio"

\* the end of handleSubmit without the finally block after a caught error
finallyBlock_notAfterCatch(result) ==
    isLoading' = (result.kind = "throw")

\* the finally block of handleSubmit
finallyBlock(result) ==
    isLoading' = FALSE

\* the try block of handleSubmit after processMessage has returned
appendReply(text) ==
    /\ messages' = Append(messages, Message(nextId, "agent", text))
    /\ error' = error

\* catchBlock that shows the banner instead of the apology
catchBlock_bannerOnly(err) ==
    /\ error' = Some(err.message)
    /\ messages' = messages

\* the catch block of handleSubmit
catchBlock(err) ==
    /\ error' = Some(err.message)
    /\ messages' = Append(messages, Message(nextId, "agent", Apology))

\* handleSubmit from its await to its end: the rest of processMessage, the
\* agent message or the catch block, and finally.  State setters of an
\* unmounted ChatInterface have no effect; onPortfolioUpdate belongs to
\* HomePage and takes effect either way.
Resume(r) ==
    /\ r \in inflight
    /\ r.outcome # Null
    /\ LET outcome == r.outcome[1]
           result == processResult(r.op, outcome)
       IN  /\ IF publishes(r.op, outcome)
              THEN handlePortfolioUpdate(outcome.data)
              ELSE UNCHANGED << portfolioData, activeTab >>
           /\ IF r.live
              THEN /\ IF result.kind = "return"
                      THEN appendReply(result.text)
                      ELSE catchBlock(result)
                   /\ nextId' = nextId + 1
                   /\ finallyBlock(result)
                   /\ UNCHANGED inputValue
              ELSE UNCHANGED << chatVars, nextId >>
    /\ inflight' = inflight \ {r}
    /\ completed' = completed \cup {r.sub}
    /\ UNCHANGED << rendered, calls, submissions, managerVars >>

(***************************************************************************)
(* HomePage.                                                               *)
(***************************************************************************)
\* a click on a tab button (or on "Start Chat")
SetActiveTab(tab) ==
    /\ tab \in Tabs
    /\ tab # activeTab
    /\ activeTab' = tab
    /\ UNCHANGED << managerVars, rendered, portfolioData, chatVars, inflight, nextId, calls,
                    submissions, completed >>

\* AnimatePresence mode="wait": the exit animation of the old tab content
\* ends, the content is unmounted and the content of the selected tab is
\* mounted.  Unmounting ChatInterface discards its state; mounting it starts
\* from the useState initial values.
SwapContent ==
    /\ rendered # activeTab
    /\ rendered' = activeTab
    /\ IF rendered = "chat"
       THEN /\ messages' = << >>
            /\ inputValue' = ""
            /\ isLoading' = FALSE
            /\ error' = Null
            /\ inflight' = {[r EXCEPT !.live = FALSE] : r \in inflight}
       ELSE IF activeTab = "chat"
       THEN /\ messages' = InitialMessages
            /\ inputValue' = ""
            /\ isLoading' = FALSE
            /\ error' = Null
            /\ inflight' = inflight
       ELSE UNCHANGED << chatVars, inflight >>
    /\ UNCHANGED << activeTab, portfolioData, nextId, calls, submissions, completed,
                    managerVars >>

(***************************************************************************)
(* StockManager and the backend's custom-stock list.  The chat sessions    *)
(* above leave this part of the state alone; it has a session of its own.  *)
(***************************************************************************)
MaxOps == 2

ManagerInputs == {"PLTR, RBLX", "[aapl, PLTR]", "abc"}

Request(id, op, args, inHandler) ==
    [id |-> id, op |-> op, args |-> args, outcome |-> Null, inHandler |-> inHandler]

\* the state right after StockManager has mounted on the "stocks" tab: the
\* effect has called loadCustomStocks and checkSystemStatus
InitManager ==
    /\ activeTab = "stocks"
    /\ rendered = "stocks"
    /\ portfolioData = Null
    /\ messages = << >>
    /\ inputValue = ""
    /\ isLoading = FALSE
    /\ error = Null
    /\ inflight = {}
    /\ nextId = 1
    /\ calls = << >>
    /\ submissions = << >>
    /\ completed = {}
    /\ customStocks = << >>
    /\ newStocks = ""
    /\ managerIsLoading = FALSE
    /\ managerMessage = Null
    /\ isInitialized = FALSE
    /\ serverStocks \in {<< >>, <<"MKL">>}
    /\ requests = { Request(1, "listCustomStocks", << >>, FALSE),
                    Request(2, "checkHealth", << >>, FALSE) }
    /\ nextRequest = 3
    /\ listCalls = << [id |-> 1, outcome |-> Null] >>
    /\ handled = 0

\* the part of the page below the "Connecting" screen is on screen
managerShown == isInitialized

\* onChange of the input field and the two quick-add buttons
SetNewStocks(value) ==
    /\ managerShown
    /\ ~managerIsLoading
    /\ handled < MaxOps
    /\ newStocks' = value
    /\ UNCHANGED << sessionVars, customStocks, managerIsLoading, managerMessage,
                    isInitialized, serverStocks, requests, nextRequest, listCalls,
                    handled >>

\* setIsLoading(true); setMessage(null); and the call of the handler
startHandler(op, args) ==
    /\ managerIsLoading' = TRUE
    /\ managerMessage' = Null
    /\ requests' = requests \cup {Request(nextRequest, op, args, FALSE)}
    /\ nextRequest' = nextRequest + 1
    /\ handled' = handled + 1
    /\ UNCHANGED << sessionVars, customStocks, newStocks, isInitialized,
                    serverStocks, listCalls >>

\* a click on the Add button: handleAddStocks up to its await
HandleAddStocks ==
    /\ managerShown
    /\ trim(newStocks) # ""
    /\ ~managerIsLoading
    /\ handled < MaxOps
    /\ LET stocks == parseStockSymbols(newStocks)
       IN  IF Len(stocks) = 0
           THEN /\ managerMessage' =
                      Some([type |-> "error", text |-> "Please enter valid stock symbols"])
                /\ UNCHANGED << sessionVars, customStocks, newStocks, managerIsLoading,
                                isInitialized, serverStocks, requests, nextRequest,
                                listCalls, handled >>
           ELSE startHandler("addCustomStocks", <<stocks>>)

\* a click on the remove button of a displayed stock
HandleRemoveStock(stock) ==
    /\ managerShown
    /\ ~managerIsLoading
    /\ handled < MaxOps
    /\ \E k \in 1..Len(customStocks) : customStocks[k] = stock
    /\ startHandler("removeCustomStocks", << <<stock>> >>)

\* a click on "Clear All" and the answer to confirm()
HandleClearAll(confirmed) ==
    /\ managerShown
    /\ ~managerIsLoading
    /\ handled < MaxOps
    /\ Len(customStocks) > 0
    /\ IF confirmed
       THEN startHandler("clearCustomStocks", << >>)
       ELSE UNCHANGED vars

\* the symbols of a that are not in b, in the order of a
without(a, b) ==
    SelectSeq(a, LAMBDA x : \A k \in 1..Len(b) : b[k] # x)

\* the backend's answer to a request, given the custom stocks it holds
serverAnswer(r, held) ==
    IF r.op = "checkHealth" THEN TRUE
    ELSE IF r.op = "listCustomStocks"
    THEN [success |-> TRUE, custom_stocks |-> held, total_custom_stocks |-> Len(held),
          total_available_stocks |-> 500 + Len(held), sp500_stocks_count |-> 500]
    ELSE IF r.op = "addCustomStocks"
    THEN [success |-> TRUE, message |-> "Stocks added",
          added |-> without(r.args[1], held),
          total_custom_stocks |-> Len(held) + Len(without(r.args[1], held))]
    ELSE IF r.op = "removeCustomStocks"
    THEN [success |-> TRUE, message |-> "Stocks removed",
          removed |-> without(r.args[1], without(r.args[1], held)),
          total_custom_stocks |-> Len(without(held, r.args[1]))]
    ELSE [success |-> TRUE, message |-> "Cleared", removed_count |-> Len(held)]

\* the custom stocks the backend holds after it has served the request
serverAfter(r, held) ==
    IF r.op = "addCustomStocks" THEN held \o without(r.args[1], held)
    ELSE IF r.op = "removeCustomStocks" THEN without(held, r.args[1])
    ELSE IF r.op = "clearCustomStocks" THEN << >>
    ELSE held

\* the outcome of the call is decided; the client has yet to resume
settled(r, outcome) ==
    /\ requests' = (requests \ {r}) \cup {[r EXCEPT !.outcome = Some(outcome)]}
    /\ listCalls' = [k \in 1..Len(listCalls) |->
                        IF listCalls[k].id = r.id
                        THEN [listCalls[k] EXCEPT !.outcome = Some(outcome)]
                        ELSE listCalls[k]]
    /\ UNCHANGED << sessionVars, customStocks, newStocks, managerIsLoading,
                    managerMessage, isInitialized, nextRequest, handled >>

\* the backend serves the request and its response is on its way
Serve(r) ==
    /\ r \in requests
    /\ r.outcome = Null
    /\ serverStocks' = serverAfter(r, serverStocks)
    /\ settled(r, Resolved(serverAnswer(r, serverStocks)))

\* the backend refuses the request (success false), or the call fails in
\* transport or times out; checkHealth turns a failed call into false
Refuse(r, kind) ==
    /\ r \in requests
    /\ r.outcome = Null
    /\ kind \in {"failure", "reject"}
    /\ serverStocks' = serverStocks
    /\ settled(r, IF r.op = "checkHealth" THEN Resolved(FALSE)
                  ELSE IF r.op = "listCustomStocks" \/ kind = "reject" THEN Rejected
                  ELSE Resolved(Failure("rate limited")))

\* checkSystemStatus after its await
checkSystemStatus(r) ==
    /\ isInitialized' = (isInitialized \/ r.outcome[1].data)
    /\ requests' = requests \ {r}
    /\ UNCHANGED << customStocks, newStocks, managerIsLoading, managerMessage,
                    nextRequest, listCalls, handled >>

\* loadCustomStocks after its await, and the finally block of the handler
\* that awaited it
loadCustomStocks(r) ==
    /\ customStocks' = IF r.outcome[1].kind = "resolve" /\ r.outcome[1].data.success
                       THEN r.outcome[1].data.custom_stocks
                       ELSE customStocks
    /\ managerIsLoading' = IF r.inHandler THEN FALSE ELSE managerIsLoading
    /\ requests' = requests \ {r}
    /\ UNCHANGED << newStocks, managerMessage, isInitialized, nextRequest,
                    listCalls, handled >>

\* what the handlers say after a successful call
successText(r) ==
    IF r.op = "addCustomStocks"
    THEN "Successfully added " \o ToString(Len(r.outcome[1].data.added)) \o " stocks"
    ELSE IF r.op = "removeCustomStocks" THEN "Removed " \o r.args[1][1]
    ELSE "Cleared all custom stocks"

\* what the handlers say after a thrown call
thrownText(r) ==
    IF r.op = "addCustomStocks" THEN "Failed to add stocks"
    ELSE IF r.op = "removeCustomStocks" THEN "Failed to remove stock"
    ELSE "Failed to clear stocks"

\* handleAddStocks, handleRemoveStock and handleClearAll after the await of
\* their call: on success up to the await of loadCustomStocks, otherwise to
\* the end
afterCall(r) ==
    IF r.outcome[1].kind = "resolve" /\ r.outcome[1].data.success
    THEN /\ managerMessage' = Some([type |-> "success", text |-> successText(r)])
         /\ newStocks' = IF r.op = "addCustomStocks" THEN "" ELSE newStocks
         /\ requests' = (requests \ {r})
                           \cup {Request(nextRequest, "listCustomStocks", << >>, TRUE)}
         /\ nextRequest' = nextRequest + 1
         /\ listCalls' = Append(listCalls, [id |-> nextRequest, outcome |-> Null])
         /\ UNCHANGED << customStocks, managerIsLoading, isInitialized, handled >>
    ELSE /\ managerMessage' =
               Some([type |-> "error",
                     text |-> IF r.outcome[1].kind = "resolve"
                              THEN r.outcome[1].data.message ELSE thrownText(r)])
         /\ managerIsLoading' = FALSE
         /\ requests' = requests \ {r}
         /\ UNCHANGED << customStocks, newStocks, isInitialized, nextRequest,
                         listCalls, handled >>

\* the continuation of a settled call of StockManager
ManagerResume(r) ==
    /\ r \in requests
    /\ r.outcome # Null
    /\ IF r.op = "checkHealth" THEN checkSystemStatus(r)
       ELSE IF r.op = "listCustomStocks" THEN loadCustomStocks(r)
       ELSE afterCall(r)
    /\ UNCHANGED << sessionVars, serverStocks >>

(***************************************************************************)
(* Specifications.                                                         *)
(***************************************************************************)
Next ==
    \/ \E value \in SessionInputs : OnChange(value)
    \/ HandleSubmit
    \/ \E r \in inflight : \E outcome \in Outcomes(r) : Settle(r, outcome)
    \/ \E r \in inflight : Resume(r)
    \/ \E tab \in Tabs : SetActiveTab(tab)
    \/ SwapContent

Spec == Init /\ [][Next]_vars

\* a session of one typed message, for the claims about classification
NextClassify ==
    \/ HandleSubmit
    \/ \E r \in inflight : \E outcome \in Outcomes(r) : Settle(r, outcome)
    \/ \E r \in inflight : Resume(r)
    \/ \E tab \in Tabs : SetActiveTab(tab)
    \/ SwapContent

SpecClassify == InitClassify /\ [][NextClassify]_vars

\* a session of one typed message, for the claims about extraction
SpecExtract == InitExtract /\ [][NextClassify]_vars

\* the session under the scheduling the code relies on: every call settles
\* (axios gives up after 30 s at the latest) and the continuation of a
\* settled call is run by the event loop
Fairness ==
    /\ WF_vars(\E r \in inflight : \E outcome \in Outcomes(r) : Settle(r, outcome))
    /\ WF_vars(\E r \in inflight : Resume(r))

SpecLive == Init /\ [][Next]_vars /\ Fairness

\* a session on the "stocks" tab
NextManager ==
    \/ \E value \in ManagerInputs : SetNewStocks(value)
    \/ HandleAddStocks
    \/ \E stock \in {customStocks[k] : k \in 1..Len(customStocks)} : HandleRemoveStock(stock)
    \/ \E confirmed \in BOOLEAN : HandleClearAll(confirmed)
    \/ \E r \in requests : Serve(r)
    \/ \E r \in requests : \E kind \in {"failure", "reject"} : Refuse(r, kind)
    \/ \E r \in requests : ManagerResume(r)

SpecManager == InitManager /\ [][NextManager]_vars

(***************************************************************************)
(* Vocabulary of the properties.                                           *)
(***************************************************************************)
\* the operations called for the submission with user-message id sub
opsCalledFor(sub) ==
    LET mine == SelectSeq(calls, LAMBDA c : c.sub = sub)
    IN  [k \in 1..Len(mine) |-> mine[k].op]

\* the ordered rule list as the specification states it
ruleIntent(text) ==
    LET l == toLowerCase(text)
    IN  IF includes(l, "initialize") \/ includes(l, "start") THEN "Initialize"
        ELSE IF includes(l, "add") /\ (includes(l, "stock") \/ includes(l, "["))
        THEN "AddStocks"
        ELSE IF includes(l, "recommend") \/ includes(l, "portfolio") \/ includes(l, "invest")
        THEN "GetRecommendations"
        ELSE IF includes(l, "list") /\ includes(l, "stock") THEN "ListStocks"
        ELSE "Unknown"

\* the dispatch table: the operation each intent calls
operationsOf(intent) ==
    IF intent = "Initialize" THEN <<"initializeSystem">>
    ELSE IF intent = "AddStocks" THEN <<"addCustomStocks">>
    ELSE IF intent = "GetRecommendations" THEN <<"getRecommendations">>
    ELSE IF intent = "ListStocks" THEN <<"listCustomStocks">>
    ELSE << >>

\* the submission (user-message id) has run to the end of handleSubmit in
\* this step
finishes(sub) ==
    /\ \E r \in inflight : r.sub = sub
    /\ \A r \in inflight' : r.sub # sub

\* the settled request of a mounted chat that is resumed in this step
resumed(r) == r \in inflight /\ r.live /\ r.outcome # Null /\ finishes(r.sub)

failedWith(r, m) == r.outcome = Some(Resolved(Failure(m)))

lastMessage(ms) == ms[Len(ms)]

isPrefix(a, b) == Len(a) <= Len(b) /\ SubSeq(b, 1, Len(a)) = a

(***************************************************************************)
(* C1.  A message whose lower-cased text contains "add" and "stock" and    *)
(* also "recommend" or "portfolio" is handled as AddStocks:                *)
(* getRecommendations is never called for it.                              *)
(***************************************************************************)
C1_AddBeforeRecommend ==
    \A k \in 1..Len(submissions) :
        LET l == toLowerCase(submissions[k].text)
        IN  (/\ includes(l, "add") /\ includes(l, "stock")
             /\ (includes(l, "recommend") \/ includes(l, "portfolio")))
            => \A j \in 1..Len(calls) :
                  ~(calls[j].sub = submissions[k].id /\ calls[j].op = "getRecommendations")

(***************************************************************************)
(* C2.  A message that reaches the AddStocks rule and matches it, but      *)
(* yields no symbols, takes the Unknown branch: no backend operation is    *)
(* called for it and its reply is the help text echoing the input.         *)
(***************************************************************************)
C2_EmptySymbolsIsUnknown ==
    \A k \in 1..Len(submissions) :
        LET text == submissions[k].text
        IN  (/\ ruleIntent(text) = "AddStocks"
             /\ Len(extractStockSymbols(text)) = 0)
            => /\ opsCalledFor(submissions[k].id) = << >>
               /\ \A i \in 1..Len(messages) :
                     messages[i].id = submissions[k].id
                     => /\ i < Len(messages)
                        /\ messages[i + 1].content = defaultResponse(text)

(***************************************************************************)
(* C3.  The operation invoked for a message is the one of the              *)
(* lowest-numbered rule of the ordered list that its lower-cased text      *)
(* matches (none for Unknown, and none for an AddStocks message without    *)
(* symbols, which the dispatcher answers from the Unknown branch).         *)
(***************************************************************************)
C3_FirstMatchingRuleWins ==
    \A k \in 1..Len(submissions) :
        LET text == submissions[k].text
            intent == ruleIntent(text)
        IN  opsCalledFor(submissions[k].id) =
                IF intent = "AddStocks" /\ Len(extractStockSymbols(text)) = 0
                THEN << >>
                ELSE operationsOf(intent)

C5_EverySubmissionAnswered ==
    [][ \A sub \in completed' \ completed :
            /\ Len(messages') >= 2
            /\ lastMessage(messages').type = "agent"
            /\ messages'[Len(messages') - 1] \in
                  { Message(sub, "user", submissions'[k].text)
                    : k \in { j \in 1..Len(submissions') : submissions'[j].id = sub } }
      ]_vars

(***************************************************************************)
(* C6.  When the backend call of a submission throws or rejects,           *)
(* handleSubmit of the mounted chat appends the fixed apology as an agent  *)
(* message and sets the error banner; and the banner is never set without  *)
(* the apology being appended in the same step.                            *)
(***************************************************************************)
C6_BannerAndApology ==
    [][ /\ \A r \in inflight :
              (resumed(r) /\ r.outcome = Some(Rejected))
              => /\ error' # Null
                 /\ messages' = Append(messages, Message(nextId, "agent", Apology))
        /\ (error' # Null /\ error' # error)
              => /\ Len(messages') = Len(messages) + 1
                 /\ isPrefix(messages, messages')
                 /\ lastMessage(messages').type = "agent"
                 /\ lastMessage(messages').content = Apology
      ]_vars

C6_Witness ==
    /\ rendered = "chat"
    /\ error = Some("Failed to get recommendations")
    /\ lastMessage(messages).content = Apology
    /\ ~isLoading

(***************************************************************************)
(* C7.  When getRecommendations returns success:false with message m, the  *)
(* agent reply appended is exactly "Failed to get recommendations: "       *)
(* followed by m, the error banner is not set, and nothing is published to *)
(* the portfolio view.                                                     *)
(***************************************************************************)
C7_RecommendationFailureReply ==
    [][ \A r \in inflight : \A m \in BackendMessages :
            (resumed(r) /\ r.op = "getRecommendations" /\ failedWith(r, m))
            => /\ messages' = Append(messages,
                     Message(nextId, "agent", "Failed to get recommendations: " \o m))
               /\ error' = Null
               /\ portfolioData' = portfolioData
               /\ activeTab' = activeTab
      ]_vars

C7_Witness ==
    /\ Len(messages) = 3
    /\ messages[2].content = "I want conservative recommendations for $5,000"
    /\ messages[3].content = "Failed to get recommendations: rate limited"
    /\ error = Null
    /\ portfolioData = Null

(***************************************************************************)
(* C8.  As stated: when initializeSystem or addCustomStocks returns        *)
(* success:false with message m, the agent reply is m verbatim.            *)
(***************************************************************************)
C8_FailureMessageVerbatim ==
    [][ \A r \in inflight : \A m \in BackendMessages :
            (resumed(r) /\ r.op \in {"initializeSystem", "addCustomStocks"}
                        /\ failedWith(r, m))
            => lastMessage(messages').content = m
      ]_vars

(***************************************************************************)
(* C8, amended.  When initializeSystem returns success:false with message  *)
(* m the agent reply is "Initialization failed: " followed by m, and when  *)
(* addCustomStocks does, it is "Failed to add stocks: " followed by m.     *)
(***************************************************************************)
C8_FailureMessagePrefixed ==
    [][ \A r \in inflight : \A m \in BackendMessages :
            (resumed(r) /\ failedWith(r, m))
            => /\ r.op = "initializeSystem"
                  => messages' = Append(messages,
                        Message(nextId, "agent", "Initialization failed: " \o m))
               /\ r.op = "addCustomStocks"
                  => messages' = Append(messages,
                        Message(nextId, "agent", "Failed to add stocks: " \o m))
      ]_vars

C8_Witness ==
    /\ \E i \in 1..Len(messages) :
          messages[i].content = "Initialization failed: rate limited"
    /\ \E i \in 1..Len(messages) :
          messages[i].content = "Failed to add stocks: rate limited"

C10_TranscriptAppendOnly ==
    [][ isPrefix(messages, messages') ]_vars

(***************************************************************************)
(* Vocabulary of the properties about extraction.                          *)
(***************************************************************************)
\* an upper-case alphabetic string of 1 to 5 letters
isTicker(symbol) ==
    /\ Len(symbol) \in 1..5
    /\ \A i \in 1..Len(symbol) : \E j \in 1..26 : charAt(symbol, i) = charAt(UpperLetters, j)

elements(a) == {a[k] : k \in 1..Len(a)}

noDuplicates(a) == \A i, j \in 1..Len(a) : a[i] = a[j] => i = j

\* a symbol list written as a bracketed list
renderedList(a) == "[" \o join(a, ", ") \o "]"

\* the text of the submission with user-message id sub
submissionText(sub) ==
    submissions[CHOOSE k \in 1..Len(submissions) : submissions[k].id = sub].text

\* the comma-separated entries of all bracketed lists of the text, trimmed
\* and upper-cased
RECURSIVE entriesOf(_)
entriesOf(groups) ==
    IF Len(groups) = 0 THEN {}
    ELSE {toUpperCase(trim(part)) : part \in elements(split(groups[1]))}
         \cup entriesOf(Tail(groups))

RECURSIVE removeCommas(_)
removeCommas(s) ==
    IF s = "" THEN ""
    ELSE (IF charAt(s, 1) = "," THEN "" ELSE charAt(s, 1)) \o removeCommas(slice(s, 2))

hasDigit(s) == \E i \in 1..Len(s) : isDigit(charAt(s, i))

\* position of the first occurrence of t in s, 0 when there is none
indexOf(s, t) ==
    LET here(i) == SubSeq(s, i, i + Len(t) - 1) = t
        range == 1..(Len(s) - Len(t) + 1)
    IN  IF \E i \in range : here(i)
        THEN CHOOSE i \in range : here(i) /\ \A j \in 1..(i - 1) : ~here(j)
        ELSE 0

RECURSIVE linesOf(_)
linesOf(s) ==
    LET k == indexOfChar(s, "\n", 1)
    IN  IF k = 0 THEN <<s>>
        ELSE <<SubSeq(s, 1, k - 1)>> \o linesOf(slice(s, k + 1))

TopHeading == "**Top Allocations:**\n"

HistoryHeading == "\n\n**Historical Performance:**"

\* the lines of the "Top Allocations" section of a recommendation reply
topLines(content) ==
    LET a == indexOf(content, TopHeading) + Len(TopHeading)
        b == indexOf(content, HistoryHeading)
    IN  IF b < a THEN << >> ELSE linesOf(SubSeq(content, a, b - 1))

startsWith(s, t) == Len(t) <= Len(s) /\ SubSeq(s, 1, Len(t)) = t

(***************************************************************************)
(* C11.  Every symbol produced by symbol extraction, by extractStockSymbols*)
(* of the chat and by parseStockSymbols, and so every symbol passed to     *)
(* addCustomStocks, is an upper-case alphabetic string of 1 to 5 letters.  *)
(***************************************************************************)
C11_SymbolsWellShaped ==
    /\ \A j \in 1..Len(calls) :
          calls[j].op = "addCustomStocks"
          => \A symbol \in elements(calls[j].args[1]) : isTicker(symbol)
    /\ \A k \in 1..Len(submissions) :
          \A symbol \in elements(parseStockSymbols(submissions[k].text)) :
              isTicker(symbol)

(***************************************************************************)
(* C12.  Symbol extraction removes duplicates and keeps first-occurrence   *)
(* order: no symbol is passed twice, "[AAPL, AAPL, msft]" yields exactly   *)
(* AAPL, MSFT, and extracting again from the rendered result yields the    *)
(* same list.                                                              *)
(***************************************************************************)
C12_SymbolsDeduplicated ==
    /\ \A j \in 1..Len(calls) :
          calls[j].op = "addCustomStocks"
          => LET symbols == calls[j].args[1]
             IN  /\ noDuplicates(symbols)
                 /\ extractStockSymbols(renderedList(symbols)) = symbols
                 /\ submissionText(calls[j].sub) = "add stocks [AAPL, AAPL, msft]"
                       => symbols = <<"AAPL", "MSFT">>
    /\ \A k \in 1..Len(submissions) :
          LET symbols == parseStockSymbols(submissions[k].text)
          IN  /\ noDuplicates(symbols)
              /\ Len(symbols) > 0 => parseStockSymbols(renderedList(symbols)) = symbols

(***************************************************************************)
(* C13.  When the input holds a bracketed list, the extracted symbols are  *)
(* only whole comma-separated entries of the list that pass the shape      *)
(* filter: an over-long entry is dropped whole and contributes no          *)
(* fragment.                                                               *)
(***************************************************************************)
C13_OnlyWholeEntries ==
    \A k \in 1..Len(submissions) :
        LET text == submissions[k].text
            allowed == {e \in entriesOf(bracketGroups(text)) : isTicker(e)}
        IN  bracketStart(text) # 0
            => /\ elements(parseStockSymbols(text)) \subseteq allowed
               /\ \A j \in 1..Len(calls) :
                     (calls[j].sub = submissions[k].id /\ calls[j].op = "addCustomStocks")
                     => elements(calls[j].args[1]) \subseteq allowed

(***************************************************************************)
(* C14.  The amount passed to getRecommendations for a message with an     *)
(* amount token is the number written by the token with all of its commas  *)
(* removed, however many there are.                                        *)
(***************************************************************************)
C14_AllCommasStripped ==
    \A j \in 1..Len(calls) :
        LET text == submissionText(calls[j].sub)
        IN  (calls[j].op = "getRecommendations" /\ hasDigit(text))
            => calls[j].args[2] = parseFloat(removeCommas(amountGroup(text)))

(***************************************************************************)
(* C15.  The amount passed to getRecommendations is always a positive      *)
(* number, never NaN, and it is the default 10000 for every text without a *)
(* digit.                                                                  *)
(***************************************************************************)
C15_AmountTotalWithDefault ==
    \A j \in 1..Len(calls) :
        calls[j].op = "getRecommendations"
        => /\ ~calls[j].args[2].nan
           /\ calls[j].args[2].cents > 0
           /\ ~hasDigit(submissionText(calls[j].sub))
                 => calls[j].args[2] = Number(100 * 10000)

(***************************************************************************)
(* C16.  The risk tolerance passed to getRecommendations is conservative   *)
(* when the text contains "conservative" or "safe" in any letter case,     *)
(* otherwise aggressive when it contains "aggressive" or "growth",         *)
(* otherwise balanced; with triggers of both kinds it is conservative.     *)
(***************************************************************************)
C16_RiskTolerance ==
    \A j \in 1..Len(calls) :
        calls[j].op = "getRecommendations"
        => LET l == toLowerCase(submissionText(calls[j].sub))
               cautious == includes(l, "conservative") \/ includes(l, "safe")
               bold == includes(l, "aggressive") \/ includes(l, "growth")
           IN  /\ calls[j].args[1] \in {"conservative", "balanced", "aggressive"}
               /\ cautious => calls[j].args[1] = "conservative"
               /\ (bold /\ ~cautious) => calls[j].args[1] = "aggressive"
               /\ (~bold /\ ~cautious) => calls[j].args[1] = "balanced"

C16_Witness ==
    /\ Len(calls) = 1
    /\ submissionText(calls[1].sub) = "invest 2500.5 in safe Growth stocks"
    /\ calls[1].args[1] = "conservative"

(***************************************************************************)
(* C17.  A message handled as GetRecommendations results in one call of    *)
(* getRecommendations with the risk tolerance and the amount of the        *)
(* message: "I want conservative recommendations for $5,000" gives         *)
(* getRecommendations("conservative", 5000), and "invest $10,000.50" gives *)
(* the amount 10000.5.                                                     *)
(***************************************************************************)
C17_RecommendationArguments ==
    \A k \in 1..Len(submissions) :
        LET text == submissions[k].text
            mine == SelectSeq(calls, LAMBDA c : c.sub = submissions[k].id)
        IN  /\ text = "I want conservative recommendations for $5,000"
               => mine = << [sub |-> submissions[k].id, op |-> "getRecommendations",
                             args |-> <<"conservative", Number(100 * 5000)>>] >>
            /\ text = "invest $10,000.50"
               => mine = << [sub |-> submissions[k].id, op |-> "getRecommendations",
                             args |-> <<"balanced", Number(100 * 10000 + 50)>>] >>

C17_Witness ==
    /\ Len(submissions) = 1
    /\ submissions[1].text = "I want conservative recommendations for $5,000"
    /\ Len(calls) = 1
    /\ calls[1].args = <<"conservative", Number(500000)>>

(***************************************************************************)
(* C18.  For a message that matches none of the intent rules no backend    *)
(* operation is called, the error banner is unset, and exactly one agent   *)
(* message is appended after the user message, whose text contains the     *)
(* trimmed input with its letter case preserved.                           *)
(***************************************************************************)
C18_UnknownEchoesInput ==
    [][ Len(submissions') > Len(submissions)
        => LET text == submissions'[Len(submissions')].text
               n == Len(messages)
           IN  ruleIntent(text) = "Unknown"
               => /\ text = trim(inputValue)
                  /\ calls' = calls
                  /\ inflight' = inflight
                  /\ error' = Null
                  /\ Len(messages') = n + 2
                  /\ isPrefix(messages, messages')
                  /\ messages'[n + 1].type = "user"
                  /\ messages'[n + 1].content = text
                  /\ messages'[n + 2].type = "agent"
                  /\ includes(messages'[n + 2].content, "\"" \o text \o "\"")
      ]_vars

C18_Witness ==
    /\ Len(messages) = 3
    /\ messages[2].content = "please Add List"
    /\ messages[3].type = "agent"
    /\ includes(messages[3].content, "\"please Add List\"")
    /\ calls = << >>
    /\ error = Null

(***************************************************************************)
(* C19.  The recommendation result is published to the portfolio view      *)
(* once, at the end of a GetRecommendations submission whose result has    *)
(* success true, and in no other step; the portfolio data of the page      *)
(* changes only through that publication.                                  *)
(***************************************************************************)
C19_PublishedOnSuccessOnly ==
    [][ /\ \A r \in inflight :
              (r.outcome # Null /\ finishes(r.sub))
              => /\ r.sub \notin completed
                 /\ IF /\ r.op = "getRecommendations"
                       /\ r.outcome[1].kind = "resolve"
                       /\ r.outcome[1].data.success
                    THEN /\ portfolioData' = Some(r.outcome[1].data)
                         /\ activeTab' = "portfolio"
                    ELSE /\ portfolioData' = portfolioData
                         /\ activeTab' = activeTab
        /\ (\A r \in inflight : ~finishes(r.sub)) => portfolioData' = portfolioData
      ]_vars

C19_Witness ==
    /\ portfolioData # Null
    /\ portfolioData[1].success
    /\ activeTab = "portfolio"
    /\ Len(submissions) = 2
    /\ completed = {submissions[1].id, submissions[2].id}
    /\ branchOf(submissions[1].text) = "GetRecommendations"
    /\ branchOf(submissions[2].text) = "ListStocks"

(***************************************************************************)
(* C20.  The "Top Allocations" section of a recommendation reply lists     *)
(* min(5, number of allocations) entries: the first entries of the         *)
(* received allocations, in the order received.                            *)
(***************************************************************************)
C20_TopAllocationsInOrder ==
    [][ \A r \in inflight :
            (/\ resumed(r)
             /\ r.op = "getRecommendations"
             /\ r.outcome[1].kind = "resolve"
             /\ r.outcome[1].data.success)
            => LET allocations == r.outcome[1].data.portfolio.allocations
                   lines == topLines(lastMessage(messages').content)
               IN  /\ Len(lines) = IF Len(allocations) < 5 THEN Len(allocations) ELSE 5
                   /\ \A k \in 1..Len(lines) :
                         startsWith(lines[k], "* " \o allocations[k].stock \o ": ")
      ]_vars

C20_Witness ==
    /\ rendered = "chat"
    /\ portfolioData # Null
    /\ Len(portfolioData[1].portfolio.allocations) = 6
    /\ Len(topLines(lastMessage(messages).content)) = 5
    /\ topLines(lastMessage(messages).content)[1] = "* KO: 10.0% (15 shares)"
    /\ ~includes(lastMessage(messages).content, "XOM")

(***************************************************************************)
(* C21.  A backend call that times out or fails in transport ends for the  *)
(* user like a failure response (success false) of the same operation:     *)
(* the agent reply is the failure text of the operation, not the apology,  *)
(* and the error banner stays unset.                                       *)
(***************************************************************************)
C21_TransportLikeFailure ==
    [][ \A r \in inflight :
            (resumed(r) /\ r.outcome[1].kind = "reject")
            => \E m \in BackendMessages :
                  LET likeFailure == processResult(r.op, Resolved(Failure(m)))
                  IN  /\ likeFailure.kind = "return"
                      /\ Len(likeFailure.text) > 0
                      /\ lastMessage(messages').type = "agent"
                      /\ lastMessage(messages').content # Apology
                      /\ error' = error
      ]_vars

(***************************************************************************)
(* C22.  The reply to a ListStocks message: for a success result with      *)
(* custom stocks, the symbols joined in the order received and the totals; *)
(* for a success result without custom stocks, the fixed guidance text;    *)
(* for a failure result, the fixed text "Failed to get custom stocks list" *)
(* whatever message the backend sent.                                      *)
(***************************************************************************)
C22_ListStocksReplies ==
    [][ \A r \in inflight :
            (resumed(r) /\ r.op = "listCustomStocks" /\ r.outcome[1].kind = "resolve")
            => LET result == r.outcome[1].data
                   reply == lastMessage(messages')
               IN  /\ Len(messages') = Len(messages) + 1
                   /\ reply.type = "agent"
                   /\ error' = error
                   /\ IF ~result.success
                      THEN reply.content = "Failed to get custom stocks list"
                      ELSE IF Len(result.custom_stocks) = 0
                      THEN reply.content =
                             "No custom stocks added yet. You can add stocks using: \"Add the following stocks: [SYMBOL1, SYMBOL2, ...]\""
                      ELSE reply.content =
                             "Your custom stocks: " \o join(result.custom_stocks, ", ")
                             \o ". Total: " \o ToString(result.total_custom_stocks)
                             \o " custom stocks out of "
                             \o ToString(result.total_available_stocks) \o " available."
      ]_vars

C22_Witness ==
    /\ Len(submissions) = 2
    /\ completed = {submissions[1].id, submissions[2].id}
    /\ Len(messages) = 5
    /\ messages[3].content = "Failed to get custom stocks list"
    /\ messages[5].content =
          "Your custom stocks: PLTR, MKL. Total: 2 custom stocks out of 502 available."
    /\ error = Null

C24_BlankSubmitIsNoOp ==
    [][ /\ trim(inputValue) = ""
           => /\ submissions' = submissions
              /\ calls' = calls
              /\ \A i \in 1..Len(messages') :
                    (i > Len(messages) /\ rendered' = "chat")
                    => messages'[i].type = "agent"
              /\ (inflight' = inflight /\ rendered' = rendered)
                 => /\ messages' = messages
                    /\ isLoading' = isLoading
                    /\ error' = error
        /\ Len(submissions') > Len(submissions)
           => LET content == messages'[Len(messages) + 1].content
              IN  /\ messages'[Len(messages) + 1].type = "user"
                  /\ content = submissions'[Len(submissions')].text
                  /\ content = trimStart(trimEnd(inputValue))
                  /\ content # ""
                  /\ ~isSpace(charAt(content, 1))
                  /\ ~isSpace(charAt(content, Len(content)))
      ]_vars

C24_Witness ==
    /\ chatShown
    /\ inputValue = "   "
    /\ Len(submissions) = 1
    /\ submissions[1].text = "hello there"
    /\ Len(messages) = 3
    /\ messages[2] = Message(submissions[1].id, "user", "hello there")
    /\ calls = << >>

(***************************************************************************)
(* C25.  In StockManager, whenever no listCustomStocks call is             *)
(* outstanding, the displayed customStocks is the list returned by the     *)
(* most recently issued listCustomStocks call that succeeded: the response *)
(* of an earlier call never replaces the list of a later one.              *)
(***************************************************************************)
C25_NewestListShown ==
    LET succeeded == { k \in 1..Len(listCalls) :
                         /\ listCalls[k].outcome # Null
                         /\ listCalls[k].outcome[1].kind = "resolve"
                         /\ listCalls[k].outcome[1].data.success }
        newest == CHOOSE k \in succeeded : \A j \in succeeded : j <= k
    IN  (/\ \A r \in requests : r.op # "listCustomStocks"
         /\ succeeded # {})
        => customStocks = listCalls[newest].outcome[1].data.custom_stocks

====
